---- MODULE Spec2Model ----
(***************************************************************************)
(* The parallel dumper of createrepo_c (src/src/dumper_thread.c).          *)
(*                                                                         *)
(* A GLib thread pool calls cr_dumper_thread once per PoolTask.  Every     *)
(* invocation produces the XML of one package and writes it, in task-id    *)
(* order, to the three XML files (primary, filelists, other) and to the    *)
(* optional sqlite databases.  Results that arrive early are parked in a   *)
(* bounded sorted buffer and written later by whichever worker advanced    *)
(* the primary counter to their id.                                        *)
(*                                                                         *)
(* Atomicity.  Every access to a shared object is an action of its own,    *)
(* with two reductions that keep all behaviours: acquiring a mutex is      *)
(* merged with the first access made under it (a lock is a right mover),   *)
(* and g_cond_broadcast is merged with the g_mutex_unlock that follows it. *)
(* The reads of udata->id_pri made without mutex_pri (lines 330, 379, 413) *)
(* are actions of their own, so the counter may change between such a read *)
(* and the next step of the reader.                                        *)
(***************************************************************************)
EXTENDS Integers, Sequences, FiniteSets, TLC

\* ------------------------------------------------------------------ bounds

\* Threads of the pool.
NumWorkers == 2

\* Largest package_count of a run of Spec.
MaxPackages == 3

\* Failures of cr_xmlfile_add_chunk / cr_db_add_pkg injected in one run.
MaxSinkErrors == 1

\* package_count of the runs of SpecBuffer, which fill the buffer.
BufPackages == 23

\* Threads of the pool in the runs of SpecOrder, where two workers hold
\* results ahead of the one being written.
OrderThreads == 3

\* package_count of the runs of SpecOrder.
OrderPackages == 4

\* The runs of SpecReuse draw st_mtime, st_size, time_file and size_package
\* from 1..MaxStamp.
MaxStamp == 2

\* ------------------------------------------------------- program constants

MAX_TASK_BUFFER_LEN == 20

Streams == {"pri", "fil", "oth"}

Mutexes == Streams \cup {"buffer"}

Workers == 1..OrderThreads

NoOne == 0

NoTask == -1

NoCur == [id |-> NoTask, pkg_from_md |-> FALSE, buffered |-> FALSE]

\* What the dumper allocates, borrows and frees, per task id i:
\*   <<"pkg", i>>   the cr_Package load_rpm returned for task i
\*   <<"md", i>>    the cr_Package of the old metadata under task i's filename
\*   <<"path", i>>  task->full_path (location_href points into it), freed
\*                  together with task->filename, task->path and the task
\*   <<"copy", i>>  buf_task->location_href, the g_strdup of line 351

\* A NULL pointer (line 343).
Null == <<"null", NoTask>>

\* The location_href and location_base an entry of the old metadata was
\* loaded with.
Loaded == <<"loaded", NoTask>>

\* udata->location_base (line 249).
UdataBase == <<"udata", NoTask>>

\* cr_ChecksumType by name: udata->checksum_type_str, md->checksum_type.
ChecksumNames == {"sha1", "sha256"}

Stamps == 1..MaxStamp

\* One file and the old metadata's entry for its name, as SpecReuse draws
\* them, with what lines 251-324 made of them.
ProbeInputs ==
    [state : {"input"},
     stat_ok : BOOLEAN, st_mtime : Stamps, st_size : Stamps,
     time_file : Stamps, size_package : Stamps,
     checksum_type : ChecksumNames, checksum_type_str : ChecksumNames,
     load_ok : BOOLEAN, dump_ok : BOOLEAN,
     old_used : {FALSE}, load_called : {FALSE}, result : {"none"},
     location_base : {Loaded}]

NoProbe == [state |-> "none"]

VARIABLES
    package_count,  \* udata->package_count
    pool_size,      \* threads of the pool that run cr_dumper_thread
    old_metadata,   \* udata->old_metadata != NULL
    md_ids,         \* ids of the tasks whose filename the old metadata have
    skip_stat,      \* udata->skip_stat
    db_on,          \* streams s with udata->s_db != NULL (all or none)
    fault_ids,      \* task ids whose processing or writing may fail in this run
    probe,          \* SpecReuse: the file and the entry lines 251-324 look at
    queue_next,     \* id of the next PoolTask the pool hands out
    id,             \* id[s]: udata->id_pri, id_fil, id_oth
    mutex,          \* mutex[m]: the worker holding udata->mutex_m, or NoOne
    cond,           \* cond[s]: the workers sleeping in g_cond_wait(cond_s)
    xml_f,          \* xml_f[s]: ids of the chunks in udata->pri_f, fil_f, oth_f
    db,             \* db[s]: ids of the packages in udata->pri_db, fil_db, oth_db
    buffer,         \* udata->buffer: GQueue of struct BufferedTask
    pc,             \* pc[w]: where worker w is in cr_dumper_thread
    task,           \* task[w]: task->id of the invocation, NoTask once freed
    cur,            \* cur[w]: the (id, res, pkg) the worker writes
    st,             \* st[w]: the stream write_pkg / the skip block is at
    critical,       \* g_critical messages about the sinks
    sink_errs,      \* sink failures injected so far
    md_href,        \* md_href[i]: what md->location_href points to, md being
                    \* the old metadata's entry for the filename of task i
    failed,         \* history: ids of the tasks that jumped to task_cleanup
    owned,          \* the objects the dumper has to free and has not freed yet
    bad_free,       \* history: frees of objects the dumper did not own then
    adv,            \* history: adv[s] = <<id, "write"|"skip">> per ++id_s
    calls           \* history: calls[s] = <<"chunk"|"db", id>> per sink call

vars == <<package_count, pool_size, old_metadata, md_ids, skip_stat, db_on,
          fault_ids, probe,
          queue_next, id, mutex, cond, xml_f, db, buffer, pc, task, cur, st,
          critical, sink_errs, md_href, failed, owned, bad_free, adv, calls>>

\* The heap: who points where, what is to be freed, what was freed wrongly.
heap == <<md_href, owned, bad_free>>

config == <<package_count, pool_size, old_metadata, md_ids, skip_stat, db_on,
            fault_ids>>

id_pri == id["pri"]

id_fil == id["fil"]

id_oth == id["oth"]

\* ----------------------------------------------------------- pure helpers

\* buf_task_sort_func: -1, 0, 1 on the ids.
buf_task_sort_func(a, b) ==
    IF a.id < b.id THEN -1 ELSE IF a.id = b.id THEN 0 ELSE 1

\* Mutant: g_queue_push_head for g_queue_insert_sorted.
InsertAtHead(q, t) == <<t>> \o q

\* Mutant: g_queue_push_tail for g_queue_insert_sorted.
InsertAtTail(q, t) == q \o <<t>>

\* g_queue_insert_sorted: before the first element that does not compare
\* below the new one.
RECURSIVE InsertSorted(_, _)
InsertSorted(q, t) ==
    IF q = <<>> THEN <<t>>
    ELSE IF buf_task_sort_func(Head(q), t) < 0
         THEN <<Head(q)>> \o InsertSorted(Tail(q), t)
         ELSE <<t>> \o q

\* Mutant: filelists is left out, other follows primary.
NextStreamNoFil(s) == "oth"

\* The streams in the order write_pkg and the skip block take them.
NextStream(s) == IF s = "pri" THEN "fil" ELSE "oth"

\* Line 252: stat() is called iff old metadata are used and skip_stat is off.
NeedStat(have_md, skip) == have_md /\ ~skip

\* Mutant: the size of the file is not compared.
OldUsedNoSize(have_md, md_found, skip, mtime_eq, size_eq, cksum_eq) ==
    /\ have_md
    /\ md_found
    /\ (skip \/ (mtime_eq /\ cksum_eq))

\* Lines 260-289: old_used.
OldUsed(have_md, md_found, skip, mtime_eq, size_eq, cksum_eq) ==
    /\ have_md
    /\ md_found
    /\ (skip \/ (mtime_eq /\ size_eq /\ cksum_eq))

\* Lines 251-324: what the first half of cr_dumper_thread comes to: the
\* failure met ("stat_fail", "load_fail", "dump_fail"), or the package whose
\* XML was made: the old metadata's ("md", pkg == md) or a parsed one ("new").
ProcessResult(have_md, skip, stat_ok, md_found, mtime_eq, size_eq, cksum_eq, load_ok, dump_ok) ==
    IF NeedStat(have_md, skip) /\ ~stat_ok THEN "stat_fail"
    ELSE IF OldUsed(have_md, md_found, skip, mtime_eq, size_eq, cksum_eq)
         THEN IF dump_ok THEN "md" ELSE "dump_fail"
         ELSE IF ~load_ok THEN "load_fail"
              ELSE IF dump_ok THEN "new" ELSE "dump_fail"

Failures == {"stat_fail", "load_fail", "dump_fail"}

\* Mutant: no goto after a failed cr_xml_dump (lines 312, 322).
GotoCleanupNoDump(r) == r \in {"stat_fail", "load_fail"}

\* Mutant: no goto after a failed stat (line 255).
GotoCleanupNoStat(r) == r \in {"load_fail", "dump_fail"}

\* Lines 255, 304, 312, 322: the results after which the code jumps to
\* task_cleanup instead of going on to the buffer and write_pkg.
GotoCleanup(r) == r \in {"stat_fail", "load_fail", "dump_fail"}

\* Mutant: <= for < in the length test.
MayBufferFull(len, idpri, tid, count) ==
    /\ len <= MAX_TASK_BUFFER_LEN
    /\ idpri # tid
    /\ count > tid + 1

\* Mutant: the test of id_pri left out.
MayBufferMyTurn(len, idpri, tid, count) ==
    /\ len < MAX_TASK_BUFFER_LEN
    /\ count > tid + 1

\* Mutant: the test for the last task off by one.
MayBufferLast(len, idpri, tid, count) ==
    /\ len < MAX_TASK_BUFFER_LEN
    /\ idpri # tid
    /\ count > tid

\* Lines 329-331: the condition under which the result goes to the buffer.
MayBuffer(len, idpri, tid, count) ==
    /\ len < MAX_TASK_BUFFER_LEN
    /\ idpri # tid
    /\ count > tid + 1

\* Mutant: the loop condition inverted, while (id == counter).
MyTurnInverted(counter, tid) == counter # tid

\* Mutant: no wait at all.
MyTurnNoWait(counter, tid) == TRUE

\* Lines 72, 96, 120, 382, 389, 396: the while loop around g_cond_wait ends.
MyTurn(counter, tid) == counter = tid

\* Mutant: the block runs for every task.
NeedAdvanceAlways(idpri, tid) == TRUE

\* Mutant: < for <=.
NeedAdvanceStrict(idpri, tid) == idpri < tid

\* Line 379: the failure block runs.
NeedAdvance(idpri, tid) == idpri <= tid

\* Line 413: the head of the buffer is the next to write.
HeadReady(headid, idpri) == headid = idpri

\* Lines 84, 108, 132: tmp_err is set by a failed cr_db_add_pkg only where
\* &tmp_err is passed (lines 83, 107); line 131 passes NULL.
DbErrReported(s) == s # "oth"

\* strcmp: 0 on equal strings.
Strcmp(a, b) == IF a = b THEN 0 ELSE 1

\* Lines 252-289: old_used when line 291 is reached; a failed stat has left
\* for task_cleanup before.
UsesOld(have_md, skip, stat_ok, md_found, mtime_eq, size_eq, cksum_eq) ==
    /\ ~(NeedStat(have_md, skip) /\ ~stat_ok)
    /\ OldUsed(have_md, md_found, skip, mtime_eq, size_eq, cksum_eq)

\* Lines 255, 292-300: load_rpm is called.
LoadCalled(have_md, skip, stat_ok, md_found, mtime_eq, size_eq, cksum_eq) ==
    /\ ~(NeedStat(have_md, skip) /\ ~stat_ok)
    /\ ~OldUsed(have_md, md_found, skip, mtime_eq, size_eq, cksum_eq)

\* Lines 281-287: the location field of the old metadata's entry after the
\* lookup: set to the task's value when the entry is used, left alone
\* otherwise.
Rebind(old_used, field, value) == IF old_used THEN value ELSE field

\* The object the local variable pkg points to (lines 294, 316).
PkgObj(from_md, i) == IF from_md THEN <<"md", i>> ELSE <<"pkg", i>>

\* Mutant: the package is freed whatever it is.
MustFreeAlways(from_md) == TRUE

\* Lines 372, 419: cr_package_free is called (pkg != md, !pkg_from_md).
MustFree(from_md) == ~from_md

\* Lines 343, 346-351: buf_task->location_href.
BufHref(from_md, i) == IF from_md THEN <<"copy", i>> ELSE Null

\* Mutant: line 352 left out, the entry keeps pointing into the task.
RepointNot(from_md, field, i) == field

\* Lines 346, 352: the entry's location_href once the result is in the
\* buffer.
Repoint(from_md, field, i) == IF from_md THEN BufHref(from_md, i) ELSE field

\* g_free, cr_package_free of the objects in the set os; g_free(NULL) does
\* nothing.  What was owned is owned no more; a free of anything else (an
\* object freed before, a package of the old metadata) is recorded.
Release(os) == owned \ os

Misfreed(os) == bad_free \cup ((os \ {Null}) \ owned)

\* ------------------------------------------------------------------- Init

InitState(n) ==
    /\ package_count = n
    /\ queue_next = 0
    /\ id = [s \in Streams |-> 0]
    /\ mutex = [m \in Mutexes |-> NoOne]
    /\ cond = [s \in Streams |-> {}]
    /\ xml_f = [s \in Streams |-> <<>>]
    /\ db = [s \in Streams |-> <<>>]
    /\ buffer = <<>>
    /\ pc = [w \in Workers |-> "idle"]
    /\ task = [w \in Workers |-> NoTask]
    /\ cur = [w \in Workers |-> NoCur]
    /\ st = [w \in Workers |-> "pri"]
    /\ critical = {}
    /\ sink_errs = 0
    /\ md_href = [i \in 0..(n - 1) |-> Loaded]
    /\ failed = {}
    /\ owned = {}
    /\ bad_free = {}
    /\ adv = [s \in Streams |-> <<>>]
    /\ calls = [s \in Streams |-> <<>>]

Init ==
    /\ probe = NoProbe
    /\ \E n \in 1..MaxPackages : InitState(n) /\ fault_ids = 0..(n - 1)
    /\ pool_size \in 1..NumWorkers
    /\ old_metadata \in BOOLEAN
    /\ md_ids = IF old_metadata THEN {1} ELSE {}
    /\ skip_stat \in BOOLEAN
    /\ db_on \in {{}, Streams}

\* A run long enough to fill the buffer: only task 0 may fail.
InitBuffer ==
    /\ probe = NoProbe
    /\ InitState(BufPackages)
    /\ fault_ids = {0}
    /\ pool_size = NumWorkers
    /\ old_metadata = FALSE
    /\ md_ids = {}
    /\ skip_stat = FALSE
    /\ db_on = Streams

\* ---------------------------------------------------------------- actions

\* The pool hands the next task, in id order, to a free thread, which enters
\* cr_dumper_thread.  Free threads are interchangeable (nothing of a thread
\* outlives an invocation), so the task goes to the first of them.
Take(w) ==
    /\ pc[w] = "idle"
    /\ w <= pool_size
    /\ \A v \in 1..(w - 1) : pc[v] # "idle"
    /\ queue_next < package_count
    /\ task' = [task EXCEPT ![w] = queue_next]
    /\ queue_next' = queue_next + 1
    /\ pc' = [pc EXCEPT ![w] = "process"]
    /\ owned' = owned \cup {<<"path", queue_next>>}
    /\ UNCHANGED <<config, probe, md_href, bad_free, id, mutex, cond, xml_f, db, buffer, cur, st,
                   critical, sink_errs, failed, adv, calls>>

\* What lines 251-324 can come to for one task, over every answer of the file
\* system, load_rpm and cr_xml_dump: <<result, old_used, load_rpm returned a
\* package>>.  md_found: g_hash_table_lookup finds the filename.
ProcessOutcomes(have_md, skip, md_found) ==
    { << ProcessResult(have_md, skip, a[1], a[2], a[3], a[4], a[5], a[6], a[7]),
         UsesOld(have_md, skip, a[1], a[2], a[3], a[4], a[5]),
         LoadCalled(have_md, skip, a[1], a[2], a[3], a[4], a[5]) /\ a[6] >> :
        a \in {b \in [1..7 -> BOOLEAN] : b[2] = md_found} }

\* Lines 251-324: stat, lookup in the old metadata, load_rpm, cr_xml_dump.
Process(w) ==
    /\ pc[w] = "process"
    /\ \E o \in ProcessOutcomes(old_metadata, skip_stat, task[w] \in md_ids) :
       LET r == o[1] IN
         /\ (r \in Failures) => task[w] \in fault_ids
         /\ md_href' = [md_href EXCEPT ![task[w]] =
                          Rebind(o[2], @, <<"path", task[w]>>)]
         /\ owned' = IF o[3] THEN owned \cup {<<"pkg", task[w]>>} ELSE owned
         /\ failed' = IF r \in Failures THEN failed \cup {task[w]} ELSE failed
         /\ IF GotoCleanup(r)
            THEN /\ pc' = [pc EXCEPT ![w] = "task_cleanup"]
                 /\ cur' = cur
            ELSE /\ pc' = [pc EXCEPT ![w] = "buf_lock"]
                 /\ cur' = [cur EXCEPT ![w] =
                              [id |-> task[w], pkg_from_md |-> (r = "md"),
                               buffered |-> FALSE]]
    /\ UNCHANGED <<config, probe, bad_free, queue_next, id, mutex, cond, xml_f, db,
                   buffer, task, st, critical, sink_errs, adv, calls>>

\* Lines 327-331: lock mutex_buffer and evaluate the buffering condition.
BufLock(w) ==
    /\ pc[w] = "buf_lock"
    /\ mutex["buffer"] = NoOne
    /\ mutex' = [mutex EXCEPT !["buffer"] = w]
    /\ pc' = [pc EXCEPT ![w] =
                IF MayBuffer(Len(buffer), id["pri"], task[w], package_count)
                THEN "buf_insert" ELSE "buf_unlock"]
    /\ UNCHANGED <<config, probe, heap, queue_next, id, cond, xml_f, db, buffer, task, cur,
                   st, critical, sink_errs, failed, adv, calls>>

\* Lines 339-363: put the result into the buffer, unlock, free the task,
\* return.
BufInsert(w) ==
    /\ pc[w] = "buf_insert"
    /\ buffer' = InsertSorted(buffer, [id |-> cur[w].id,
                                      pkg_from_md |-> cur[w].pkg_from_md])
    /\ md_href' = [md_href EXCEPT ![cur[w].id] =
                      Repoint(cur[w].pkg_from_md, @, cur[w].id)]
    /\ mutex' = [mutex EXCEPT !["buffer"] = NoOne]
    /\ owned' = Release({<<"path", task[w]>>})
                    \cup ({BufHref(cur[w].pkg_from_md, cur[w].id)} \ {Null})
    /\ bad_free' = Misfreed({<<"path", task[w]>>})
    /\ task' = [task EXCEPT ![w] = NoTask]
    /\ cur' = [cur EXCEPT ![w] = NoCur]
    /\ pc' = [pc EXCEPT ![w] = "idle"]
    /\ UNCHANGED <<config, probe, queue_next, id, cond, xml_f, db, st, critical,
                   sink_errs, failed, adv, calls>>

\* Mutant: write_pkg is called with mutex_buffer still locked.
BufUnlockNot(w) ==
    /\ pc[w] = "buf_unlock"
    /\ st' = [st EXCEPT ![w] = "pri"]
    /\ pc' = [pc EXCEPT ![w] = "wp_enter"]
    /\ UNCHANGED <<config, probe, heap, queue_next, id, mutex, cond, xml_f, db,
                   buffer, task, cur, critical, sink_errs, failed, adv, calls>>

\* Lines 366-369: unlock mutex_buffer and call write_pkg.
BufUnlock(w) ==
    /\ pc[w] = "buf_unlock"
    /\ mutex' = [mutex EXCEPT !["buffer"] = NoOne]
    /\ st' = [st EXCEPT ![w] = "pri"]
    /\ pc' = [pc EXCEPT ![w] = "wp_enter"]
    /\ UNCHANGED <<config, probe, heap, queue_next, id, cond, xml_f, db, buffer, task, cur,
                   critical, sink_errs, failed, adv, calls>>

\* write_pkg, lines 71-74, 95-98, 119-122: lock the stream's mutex; if it is
\* not this id's turn sleep in g_cond_wait (which gives the mutex back),
\* otherwise increment the counter.  A sleeper comes back here once a
\* broadcast has woken it.
WpEnter(w) ==
    /\ \/ pc[w] = "wp_enter"
       \/ pc[w] = "wp_sleep" /\ w \notin cond[st[w]]
    /\ mutex[st[w]] = NoOne
    /\ IF MyTurn(id[st[w]], cur[w].id)
       THEN /\ mutex' = [mutex EXCEPT ![st[w]] = w]
            /\ id' = [id EXCEPT ![st[w]] = @ + 1]
            /\ adv' = [adv EXCEPT ![st[w]] = Append(@, <<cur[w].id, "write">>)]
            /\ pc' = [pc EXCEPT ![w] = "wp_chunk"]
            /\ cond' = cond
       ELSE /\ cond' = [cond EXCEPT ![st[w]] = @ \cup {w}]
            /\ pc' = [pc EXCEPT ![w] = "wp_sleep"]
            /\ UNCHANGED <<mutex, id, adv>>
    /\ UNCHANGED <<config, probe, heap, queue_next, xml_f, db, buffer, task, cur, st,
                   critical, sink_errs, failed, calls>>

\* Mutant: a failed cr_xmlfile_add_chunk is logged and then propagated:
\* write_pkg unlocks and returns at once.
WpChunkPropagate(w) ==
    /\ pc[w] = "wp_chunk"
    /\ \E ok \in BOOLEAN :
         /\ ~ok => (cur[w].id \in fault_ids /\ sink_errs < MaxSinkErrors)
         /\ xml_f' = IF ok THEN [xml_f EXCEPT ![st[w]] = Append(@, cur[w].id)]
                     ELSE xml_f
         /\ critical' = IF ok THEN critical
                        ELSE critical \cup {<<st[w], "chunk", cur[w].id>>}
         /\ sink_errs' = IF ok THEN sink_errs ELSE sink_errs + 1
         /\ IF ok
            THEN /\ pc' = [pc EXCEPT ![w] =
                             IF st[w] \in db_on THEN "wp_db" ELSE "wp_leave"]
                 /\ UNCHANGED <<mutex, cond, st>>
            ELSE /\ pc' = [pc EXCEPT ![w] =
                             IF cur[w].buffered THEN "clean_buf"
                             ELSE "clean_pkg"]
                 /\ mutex' = [mutex EXCEPT ![st[w]] = NoOne]
                 /\ cond' = [cond EXCEPT ![st[w]] = {}]
                 /\ st' = [st EXCEPT ![w] = "pri"]
    /\ calls' = [calls EXCEPT ![st[w]] = Append(@, <<"chunk", cur[w].id>>)]
    /\ UNCHANGED <<config, probe, heap, queue_next, id, db, buffer, task, cur, failed, adv>>

\* Mutant: the mutex is given back right after the chunk, so that
\* cr_db_add_pkg runs outside the critical section.
WpChunkUnlockEarly(w) ==
    /\ pc[w] = "wp_chunk"
    /\ \E ok \in BOOLEAN :
         /\ ~ok => (cur[w].id \in fault_ids /\ sink_errs < MaxSinkErrors)
         /\ xml_f' = IF ok THEN [xml_f EXCEPT ![st[w]] = Append(@, cur[w].id)]
                     ELSE xml_f
         /\ critical' = IF ok THEN critical
                        ELSE critical \cup {<<st[w], "chunk", cur[w].id>>}
         /\ sink_errs' = IF ok THEN sink_errs ELSE sink_errs + 1
    /\ calls' = [calls EXCEPT ![st[w]] = Append(@, <<"chunk", cur[w].id>>)]
    /\ mutex' = [mutex EXCEPT ![st[w]] = NoOne]
    /\ cond' = [cond EXCEPT ![st[w]] = {}]
    /\ pc' = [pc EXCEPT ![w] = IF st[w] \in db_on THEN "wp_db" ELSE "wp_leave"]
    /\ UNCHANGED <<config, probe, heap, queue_next, id, db, buffer, task, cur, st, failed,
                   adv>>

\* write_pkg, lines 75-80, 99-104, 123-128: cr_xmlfile_add_chunk; an error
\* is logged and cleared.
WpChunk(w) ==
    /\ pc[w] = "wp_chunk"
    /\ \E ok \in BOOLEAN :
         /\ ~ok => (cur[w].id \in fault_ids /\ sink_errs < MaxSinkErrors)
         /\ xml_f' = IF ok THEN [xml_f EXCEPT ![st[w]] = Append(@, cur[w].id)]
                     ELSE xml_f
         /\ critical' = IF ok THEN critical
                        ELSE critical \cup {<<st[w], "chunk", cur[w].id>>}
         /\ sink_errs' = IF ok THEN sink_errs ELSE sink_errs + 1
    /\ calls' = [calls EXCEPT ![st[w]] = Append(@, <<"chunk", cur[w].id>>)]
    /\ pc' = [pc EXCEPT ![w] = IF st[w] \in db_on THEN "wp_db" ELSE "wp_leave"]
    /\ UNCHANGED <<config, probe, heap, queue_next, id, mutex, cond, db, buffer, task, cur,
                   st, failed, adv>>

\* write_pkg, lines 82-89, 106-113, 130-137: cr_db_add_pkg when the database
\* is attached.
WpDb(w) ==
    /\ pc[w] = "wp_db"
    /\ \E ok \in BOOLEAN :
         /\ ~ok => (cur[w].id \in fault_ids /\ sink_errs < MaxSinkErrors)
         /\ db' = IF ok THEN [db EXCEPT ![st[w]] = Append(@, cur[w].id)] ELSE db
         /\ critical' = IF ~ok /\ DbErrReported(st[w])
                        THEN critical \cup {<<st[w], "db", cur[w].id>>}
                        ELSE critical
         /\ sink_errs' = IF ok THEN sink_errs ELSE sink_errs + 1
    /\ calls' = [calls EXCEPT ![st[w]] = Append(@, <<"db", cur[w].id>>)]
    /\ pc' = [pc EXCEPT ![w] = "wp_leave"]
    /\ UNCHANGED <<config, probe, heap, queue_next, id, mutex, cond, xml_f, buffer, task,
                   cur, st, failed, adv>>

\* write_pkg, lines 91-92, 115-116, 139-141: broadcast, unlock, go on to the
\* next stream or return to the caller (line 369 or line 417).
WpLeave(w) ==
    /\ pc[w] = "wp_leave"
    /\ cond' = [cond EXCEPT ![st[w]] = {}]
    /\ mutex' = [mutex EXCEPT ![st[w]] = NoOne]
    /\ IF st[w] = "oth"
       THEN /\ st' = [st EXCEPT ![w] = "pri"]
            /\ pc' = [pc EXCEPT ![w] =
                        IF cur[w].buffered THEN "clean_buf" ELSE "clean_pkg"]
       ELSE /\ st' = [st EXCEPT ![w] = NextStream(@)]
            /\ pc' = [pc EXCEPT ![w] = "wp_enter"]
    /\ UNCHANGED <<config, probe, heap, queue_next, id, xml_f, db, buffer, task, cur,
                   critical, sink_errs, failed, adv, calls>>

\* Lines 371-376: free the package (unless it is the old metadata's) and the
\* XML.
CleanPkg(w) ==
    /\ pc[w] = "clean_pkg"
    /\ LET os == IF MustFree(cur[w].pkg_from_md)
                 THEN {PkgObj(cur[w].pkg_from_md, cur[w].id)} ELSE {}
       IN  owned' = Release(os) /\ bad_free' = Misfreed(os)
    /\ cur' = [cur EXCEPT ![w] = NoCur]
    /\ pc' = [pc EXCEPT ![w] = "task_cleanup"]
    /\ UNCHANGED <<config, probe, md_href, queue_next, id, mutex, cond, xml_f, db, buffer,
                   task, st, critical, sink_errs, failed, adv, calls>>

\* Line 379: read id_pri, without mutex_pri, to decide whether the counters
\* still have to be advanced for this task.
TaskCleanup(w) ==
    /\ pc[w] = "task_cleanup"
    /\ pc' = [pc EXCEPT ![w] =
                IF NeedAdvance(id["pri"], task[w]) THEN "sk_enter"
                ELSE "free_task"]
    /\ UNCHANGED <<config, probe, heap, queue_next, id, mutex, cond, xml_f, db, buffer,
                   task, cur, st, critical, sink_errs, failed, adv, calls>>

\* Lines 381-384, 388-391, 395-398: lock, wait for the turn, increment.
SkEnter(w) ==
    /\ \/ pc[w] = "sk_enter"
       \/ pc[w] = "sk_sleep" /\ w \notin cond[st[w]]
    /\ mutex[st[w]] = NoOne
    /\ IF MyTurn(id[st[w]], task[w])
       THEN /\ mutex' = [mutex EXCEPT ![st[w]] = w]
            /\ id' = [id EXCEPT ![st[w]] = @ + 1]
            /\ adv' = [adv EXCEPT ![st[w]] = Append(@, <<task[w], "skip">>)]
            /\ pc' = [pc EXCEPT ![w] = "sk_leave"]
            /\ cond' = cond
       ELSE /\ cond' = [cond EXCEPT ![st[w]] = @ \cup {w}]
            /\ pc' = [pc EXCEPT ![w] = "sk_sleep"]
            /\ UNCHANGED <<mutex, id, adv>>
    /\ UNCHANGED <<config, probe, heap, queue_next, xml_f, db, buffer, task, cur, st,
                   critical, sink_errs, failed, calls>>

\* Lines 385-386, 392-393, 399-400: broadcast and unlock.
SkLeave(w) ==
    /\ pc[w] = "sk_leave"
    /\ cond' = [cond EXCEPT ![st[w]] = {}]
    /\ mutex' = [mutex EXCEPT ![st[w]] = NoOne]
    /\ IF st[w] = "oth"
       THEN /\ st' = [st EXCEPT ![w] = "pri"]
            /\ pc' = [pc EXCEPT ![w] = "free_task"]
       ELSE /\ st' = [st EXCEPT ![w] = NextStream(@)]
            /\ pc' = [pc EXCEPT ![w] = "sk_enter"]
    /\ UNCHANGED <<config, probe, heap, queue_next, id, xml_f, db, buffer, task, cur,
                   critical, sink_errs, failed, adv, calls>>

\* Lines 403-406: free the task.
FreeTask(w) ==
    /\ pc[w] = "free_task"
    /\ owned' = Release({<<"path", task[w]>>})
    /\ bad_free' = Misfreed({<<"path", task[w]>>})
    /\ task' = [task EXCEPT ![w] = NoTask]
    /\ pc' = [pc EXCEPT ![w] = "dr_lock"]
    /\ UNCHANGED <<config, probe, md_href, queue_next, id, mutex, cond, xml_f, db, buffer,
                   cur, st, critical, sink_errs, failed, adv, calls>>

\* Line 411: lock mutex_buffer in the drain loop.
DrLock(w) ==
    /\ pc[w] = "dr_lock"
    /\ mutex["buffer"] = NoOne
    /\ mutex' = [mutex EXCEPT !["buffer"] = w]
    /\ pc' = [pc EXCEPT ![w] = "dr_peek"]
    /\ UNCHANGED <<config, probe, heap, queue_next, id, cond, xml_f, db, buffer, task, cur,
                   st, critical, sink_errs, failed, adv, calls>>

\* Mutant: the head is written but left in the buffer (peek for pop at line
\* 414).
DrPeekNoPop(w) ==
    /\ pc[w] = "dr_peek"
    /\ mutex' = [mutex EXCEPT !["buffer"] = NoOne]
    /\ IF buffer # <<>> /\ HeadReady(Head(buffer).id, id["pri"])
       THEN /\ cur' = [cur EXCEPT ![w] =
                         [id |-> Head(buffer).id,
                          pkg_from_md |-> Head(buffer).pkg_from_md,
                          buffered |-> TRUE]]
            /\ pc' = [pc EXCEPT ![w] = "wp_enter"]
       ELSE /\ pc' = [pc EXCEPT ![w] = "idle"]
            /\ cur' = cur
    /\ UNCHANGED <<config, probe, heap, queue_next, id, cond, xml_f, db, buffer,
                   task, st, critical, sink_errs, failed, adv, calls>>

\* Lines 412-417 and 426-429: peek the head; pop it and write it when its id
\* is id_pri (read without mutex_pri), otherwise leave the loop and return.
DrPeek(w) ==
    /\ pc[w] = "dr_peek"
    /\ mutex' = [mutex EXCEPT !["buffer"] = NoOne]
    /\ IF buffer # <<>> /\ HeadReady(Head(buffer).id, id["pri"])
       THEN /\ buffer' = Tail(buffer)
            /\ cur' = [cur EXCEPT ![w] =
                         [id |-> Head(buffer).id,
                          pkg_from_md |-> Head(buffer).pkg_from_md,
                          buffered |-> TRUE]]
            /\ pc' = [pc EXCEPT ![w] = "wp_enter"]
       ELSE /\ pc' = [pc EXCEPT ![w] = "idle"]
            /\ UNCHANGED <<buffer, cur>>
    /\ UNCHANGED <<config, probe, heap, queue_next, id, cond, xml_f, db, task, st,
                   critical, sink_errs, failed, adv, calls>>

\* Lines 418-425: free the popped BufferedTask.
CleanBuf(w) ==
    /\ pc[w] = "clean_buf"
    /\ LET os == (IF MustFree(cur[w].pkg_from_md)
                  THEN {PkgObj(cur[w].pkg_from_md, cur[w].id)} ELSE {})
                 \cup {BufHref(cur[w].pkg_from_md, cur[w].id)}
       IN  owned' = Release(os) /\ bad_free' = Misfreed(os)
    /\ cur' = [cur EXCEPT ![w] = NoCur]
    /\ pc' = [pc EXCEPT ![w] = "dr_lock"]
    /\ UNCHANGED <<config, probe, md_href, queue_next, id, mutex, cond, xml_f, db, buffer,
                   task, st, critical, sink_errs, failed, adv, calls>>

\* Lines 251-324 for task 0 on the file and the entry of probe: the
\* comparisons of lines 271-273 are made on the values, the entry's location
\* fields are assigned as lines 285-286 do.
Lookup ==
    /\ probe.state = "input"
    /\ LET found == 0 \in md_ids
           mtime_eq == probe.st_mtime = probe.time_file
           size_eq == probe.st_size = probe.size_package
           cksum_eq == Strcmp(probe.checksum_type_str, probe.checksum_type) = 0
           used == UsesOld(old_metadata, skip_stat, probe.stat_ok, found,
                           mtime_eq, size_eq, cksum_eq)
       IN  /\ probe' = [probe EXCEPT
                 !.state = "done",
                 !.old_used = used,
                 !.load_called =
                     LoadCalled(old_metadata, skip_stat, probe.stat_ok, found,
                                mtime_eq, size_eq, cksum_eq),
                 !.result =
                     ProcessResult(old_metadata, skip_stat, probe.stat_ok,
                                   found, mtime_eq, size_eq, cksum_eq,
                                   probe.load_ok, probe.dump_ok),
                 !.location_base = Rebind(used, @, UdataBase)]
           /\ md_href' = [md_href EXCEPT ![0] = Rebind(used, @, <<"path", 0>>)]
    /\ UNCHANGED <<config, owned, bad_free, queue_next, id, mutex, cond, xml_f,
                   db, buffer, pc, task, cur, st, critical, sink_errs, failed,
                   adv, calls>>

Step(w) ==
    \/ Take(w)
    \/ Process(w)
    \/ BufLock(w)
    \/ BufInsert(w)
    \/ BufUnlock(w)
    \/ WpEnter(w)
    \/ WpChunk(w)
    \/ WpDb(w)
    \/ WpLeave(w)
    \/ CleanPkg(w)
    \/ TaskCleanup(w)
    \/ SkEnter(w)
    \/ SkLeave(w)
    \/ FreeTask(w)
    \/ DrLock(w)
    \/ DrPeek(w)
    \/ CleanBuf(w)

Next == \E w \in Workers : Step(w)

Spec == Init /\ [][Next]_vars

SpecBuffer == InitBuffer /\ [][Next]_vars

\* Three threads and four packages: two results can be ahead of the one
\* being written, and reach the buffer in either order.  Task 1 may fail.
InitOrder ==
    /\ probe = NoProbe
    /\ InitState(OrderPackages)
    /\ fault_ids = {1}
    /\ pool_size = OrderThreads
    /\ old_metadata = FALSE
    /\ md_ids = {}
    /\ skip_stat = FALSE
    /\ db_on = Streams

SpecOrder == InitOrder /\ [][Next]_vars

FairSpecOrder == SpecOrder /\ \A w \in Workers : WF_vars(Step(w))

\* One task, one file, one entry: every answer of stat, every old entry.
InitReuse ==
    /\ InitState(1)
    /\ fault_ids = {0}
    /\ pool_size = 1
    /\ old_metadata \in BOOLEAN
    /\ md_ids \in (IF old_metadata THEN {{}, {0}} ELSE {{}})
    /\ skip_stat \in BOOLEAN
    /\ db_on = {}
    /\ probe \in ProbeInputs

NextReuse == Lookup

SpecReuse == InitReuse /\ [][NextReuse]_vars

\* Every thread of the pool takes its steps: a thread that can step is
\* scheduled, a mutex that is free ever again is acquired.
FairSpec == Spec /\ \A w \in Workers : WF_vars(Step(w))

\* ------------------------------------------------------------ properties

\* Every task was handed out and every invocation of cr_dumper_thread
\* returned.
Done ==
    /\ queue_next = package_count
    /\ \A w \in Workers : pc[w] = "idle"

Ids == 0..(package_count - 1)

Increasing(q) == \A i, j \in 1..Len(q) : i < j => q[i] < q[j]

IsChunk(c) == c[1] = "chunk"

IsDb(c) == c[1] = "db"

\* The ids cr_xmlfile_add_chunk / cr_db_add_pkg was called with on stream s,
\* in call order.
ChunkIds(s) ==
    LET q == SelectSeq(calls[s], IsChunk) IN [i \in 1..Len(q) |-> q[i][2]]

DbIds(s) ==
    LET q == SelectSeq(calls[s], IsDb) IN [i \in 1..Len(q) |-> q[i][2]]

Count(q, x) == Cardinality({i \in 1..Len(q) : q[i] = x})

AdvIds(s) == [i \in 1..Len(adv[s]) |-> adv[s][i][1]]

Range(q) == {q[i] : i \in 1..Len(q)}

RECURSIVE Ascending(_)
Ascending(S) ==
    IF S = {} THEN <<>>
    ELSE LET m == CHOOSE x \in S : \A y \in S : x <= y
         IN  <<m>> \o Ascending(S \ {m})

\* What a run that takes the tasks one after the other leaves on stream s:
\* the chunk of every task whose XML was made, except the chunks the file
\* refused, by ascending id.
SerialReference(s) ==
    Ascending({i \in Ids : i \notin failed /\ <<s, "chunk", i>> \notin critical})

\* C1: on each of the three streams the ids of the chunks write_pkg appends
\* are strictly increasing, in the order of the calls and in the file: no
\* chunk follows a chunk of a greater id and no id is appended twice.
C1_StreamOrder ==
    \A s \in Streams : Increasing(ChunkIds(s)) /\ Increasing(xml_f[s])

\* C1 witness: a worker has just appended a result it popped from the
\* buffer behind an earlier chunk, while another worker sleeps on a
\* condition variable.
C1_Witness ==
    \E w, v \in Workers :
        /\ pc[w] = "wp_leave"
        /\ cur[w].buffered
        /\ Len(xml_f[st[w]]) >= 2
        /\ xml_f[st[w]][Len(xml_f[st[w]])] = cur[w].id
        /\ pc[v] = "wp_sleep"

\* Every counter is at package_count and no chunk is still to be appended:
\* the streams are final.
AllWritten ==
    /\ \A s \in Streams : id[s] = package_count
    /\ \A w \in Workers : pc[w] # "wp_chunk"

\* C2: once the streams are final, and so when the run is over, every
\* stream holds the serial reference, whatever the pool size and the
\* interleaving were.
C2_EqualsSerial ==
    (Done \/ AllWritten) => \A s \in Streams : xml_f[s] = SerialReference(s)

\* C2 witness: three packages and two threads; the streams are final, the
\* other thread has returned, and this one still holds the result of task 1,
\* which it popped from the buffer and wrote.
C2_Witness ==
    /\ package_count = 3
    /\ pool_size = 2
    /\ queue_next = package_count
    /\ \E w \in Workers :
         /\ pc[w] = "clean_buf"
         /\ cur[w].id = 1
         /\ \A v \in Workers \ {w} : pc[v] = "idle"
    /\ \A s \in Streams : xml_f[s] = <<0, 1, 2>>

Inserts(w) == pc[w] = "buf_insert" /\ pc'[w] = "idle"

\* The step of worker w that finds the buffering condition true.
Admits(w) == pc[w] = "buf_lock" /\ pc'[w] = "buf_insert"

\* C6 as stated: when a result is inserted into the buffer its id is not
\* the value of id_pri at that moment.
C6_NotMyTurnAtInsert ==
    [][\A w \in Workers : Inserts(w) => id["pri"] # task[w]]_vars

\* C6 amended: id_pri differs from the id when the worker evaluates the
\* buffering condition under mutex_buffer; until the insertion the counter
\* can only have come up to the id, never passed it.
C6_NotMyTurnAtCheck ==
    [][\A w \in Workers :
         /\ Admits(w) => id["pri"] # task[w]
         /\ Inserts(w) => id["pri"] <= task[w]]_vars

\* C6 witness: a worker is about to insert a result whose id id_pri has
\* reached since the worker looked.
C6_Witness ==
    \E w \in Workers : pc[w] = "buf_insert" /\ id["pri"] = task[w]

\* C7: the result of the last task is never put into the buffer: whoever
\* holds it at the buffering condition goes on to write_pkg.
C7_LastNotBuffered ==
    /\ \A i \in 1..Len(buffer) : buffer[i].id + 1 < package_count
    /\ \A w \in Workers :
         task[w] + 1 = package_count => pc[w] # "buf_insert"

\* C7 witness: the worker of the last task was refused although the buffer
\* has room and it is not the task's turn.
C7_Witness ==
    \E w \in Workers :
        /\ pc[w] = "buf_unlock"
        /\ task[w] + 1 = package_count
        /\ id["pri"] < task[w]
        /\ Len(buffer) < MAX_TASK_BUFFER_LEN

C9_AppendErrorContained ==
    /\ \A s \in Streams : \A k \in Range(ChunkIds(s)) :
         k \notin Range(xml_f[s]) => <<s, "chunk", k>> \in critical
    /\ \A c \in critical : c[2] = "chunk" =>
         /\ id[c[1]] > c[3]
         /\ c[3] \notin Range(xml_f[c[1]])
         /\ (Done \/ AllWritten) =>
              \A s \in Streams : \A j \in Ids :
                  (j >= c[3] /\ j \notin failed /\ <<s, "chunk", j>> \notin critical)
                      => j \in Range(xml_f[s])

\* C9 witness: three tasks; the chunk of task 1 failed on primary; the run
\* is over, primary holds 0 and 2, the other two streams hold 0, 1 and 2.
C9_Witness ==
    /\ Done
    /\ package_count = 3
    /\ critical = {<<"pri", "chunk", 1>>}
    /\ xml_f["pri"] = <<0, 2>>
    /\ xml_f["fil"] = <<0, 1, 2>>
    /\ xml_f["oth"] = <<0, 1, 2>>
    /\ \A s \in Streams : id[s] = 3

\* C10: on a stream with a database the calls are chunk k, insert k, chunk
\* k', insert k', ... with k < k' < ...: the ids inserted are the ids
\* appended, in the same order; and the insert is made by the worker that
\* appended, still holding the stream's mutex.
C10_DbFollowsChunk ==
    \A s \in db_on :
        /\ \A j \in 1..Len(calls[s]) :
             /\ (j % 2 = 1) => calls[s][j][1] = "chunk"
             /\ (j % 2 = 0) => calls[s][j] = <<"db", calls[s][j - 1][2]>>
             /\ (j > 2) => calls[s][j][2] > calls[s][j - 2][2]
        /\ \A w \in Workers : (pc[w] = "wp_db" /\ st[w] = s) =>
             /\ mutex[s] = w
             /\ Len(calls[s]) % 2 = 1
             /\ calls[s][Len(calls[s])] = <<"chunk", cur[w].id>>
        /\ \A w \in Workers : (pc[w] = "wp_leave" /\ st[w] = s) =>
             /\ mutex[s] = w
             /\ calls[s][Len(calls[s])] = <<"db", cur[w].id>>
        /\ (\A w \in Workers : ~(pc[w] = "wp_db" /\ st[w] = s)) =>
             DbIds(s) = ChunkIds(s)

\* C10 witness: a worker has made the second insert into a database while
\* another worker waits for the same stream.
C10_Witness ==
    \E s \in db_on : \E w, v \in Workers :
        /\ pc[w] = "wp_leave" /\ st[w] = s
        /\ Len(DbIds(s)) = 2
        /\ pc[v] \in {"wp_enter", "wp_sleep"} /\ st[v] = s

\* The worker is inside write_pkg (line 369 or 417).
InWritePkg(w) == pc[w] \in {"wp_enter", "wp_sleep", "wp_chunk", "wp_db", "wp_leave"}

\* C11: no package of the old metadata is ever freed and no package is freed
\* twice; a package load_rpm returned is still allocated while write_pkg
\* runs on it; and at the end of the run no package load_rpm returned is
\* left allocated, whatever path its task took.
C11_PackagesFreedOnce ==
    /\ bad_free = {}
    /\ \A w \in Workers : (InWritePkg(w) /\ ~cur[w].pkg_from_md) =>
         <<"pkg", cur[w].id>> \in owned
    /\ Done => \A i \in Ids : <<"pkg", i>> \notin owned

\* C12: every cr_db_add_pkg that failed, on any of the three databases, left
\* a critical message naming the stream and the package, and the counter of
\* the stream is past the package's id all the same.
C12_DbErrorLogged ==
    \A s \in Streams : \A k \in Range(DbIds(s)) :
        k \notin Range(db[s]) =>
            /\ <<s, "db", k>> \in critical
            /\ id[s] > k

\* The lookup of SpecReuse has been made.
Looked == probe.state = "done"

\* The condition of the claim, on the values: old metadata are configured,
\* they have an entry for the filename, and skip_stat is set or the file
\* (which stat found) has the entry's time, size and checksum type.
ReuseCondition ==
    /\ old_metadata
    /\ 0 \in md_ids
    /\ \/ skip_stat
       \/ /\ probe.stat_ok
          /\ probe.time_file = probe.st_mtime
          /\ probe.size_package = probe.st_size
          /\ probe.checksum_type = probe.checksum_type_str

\* The stat of line 253 was made and failed.
StatFailed == old_metadata /\ ~skip_stat /\ ~probe.stat_ok

LocationUnchanged == md_href[0] = Loaded /\ probe.location_base = Loaded

\* C13 as stated: the entry is used if and only if the condition holds, and
\* in every other case load_rpm is called and the entry's location fields
\* are as they were.
C13_ReuseElseParse ==
    Looked =>
        /\ probe.old_used <=> ReuseCondition
        /\ ~ReuseCondition => (probe.load_called /\ LocationUnchanged)

\* C13 amended: the entry is used if and only if the condition holds; when
\* it is used load_rpm is not called and the entry's location fields are the
\* task's; when the stat of the file failed the task fails and load_rpm is
\* not called; in every other case load_rpm is called; whenever the entry is
\* not used its location fields are as they were.
C13_ReuseElseParseOrStatFail ==
    Looked =>
        /\ probe.old_used <=> ReuseCondition
        /\ probe.old_used =>
             /\ ~probe.load_called
             /\ md_href[0] = <<"path", 0>>
             /\ probe.location_base = UdataBase
             /\ probe.result \in {"md", "dump_fail"}
        /\ StatFailed => (~probe.load_called /\ probe.result = "stat_fail")
        /\ (~ReuseCondition /\ ~StatFailed) =>
             (probe.load_called /\ probe.result \in {"new", "load_fail", "dump_fail"})
        /\ ~probe.old_used => LocationUnchanged

\* C13 witness: skip_stat is off, the file has the entry's time, size and
\* checksum type, and the entry was used and given the task's location.
C13_Witness ==
    /\ Looked
    /\ ~skip_stat
    /\ probe.stat_ok
    /\ probe.time_file = probe.st_mtime
    /\ probe.size_package = probe.st_size
    /\ probe.checksum_type = probe.checksum_type_str
    /\ probe.old_used
    /\ probe.result = "md"
    /\ md_href[0] = <<"path", 0>>

\* The worker is in the block of lines 379-401.
InSkip(w) == pc[w] \in {"sk_enter", "sk_sleep", "sk_leave"}

\* C14: every counter is incremented for the ids 0, 1, 2, ... in turn, once
\* each; the block guarded by id_pri <= task->id is entered by the tasks that
\* jumped to task_cleanup and by no task that went through write_pkg: when
\* the guard is read id_pri is at most the id of a failed task and above the
\* id of a written one; when the task is freed every counter has been
\* incremented for it exactly once, by the block if it failed and by
\* write_pkg if not.
C14_OneAdvancePerId ==
    /\ \A s \in Streams :
         /\ Len(adv[s]) = id[s]
         /\ \A j \in 1..Len(adv[s]) : adv[s][j][1] = j - 1
    /\ \A w \in Workers :
         /\ InSkip(w) => task[w] \in failed
         /\ pc[w] = "task_cleanup" =>
              IF task[w] \in failed THEN id["pri"] <= task[w]
              ELSE id["pri"] > task[w]
         /\ pc[w] = "free_task" => \A s \in Streams :
              /\ Count(AdvIds(s), task[w]) = 1
              /\ <<task[w], IF task[w] \in failed THEN "skip" ELSE "write">>
                     \in Range(adv[s])
    /\ Done => \A s \in Streams : id[s] = package_count

\* C14 witness: a worker whose task was written reads the guard when id_pri
\* is already past its id, while the worker of a failed task is in the block
\* and has yet to take its turn on the primary counter.
C14_Witness ==
    \E w, v \in Workers :
        /\ pc[w] = "task_cleanup"
        /\ task[w] \notin failed
        /\ id["pri"] > task[w]
        /\ pc[v] = "sk_sleep"
        /\ st[v] = "pri"
        /\ task[v] \in failed

\* The result of task i is in the buffer.
InBuffer(i) == \E j \in 1..Len(buffer) : buffer[j].id = i

\* A worker has popped the result of task i in its drain loop and holds it.
Popped(i) == \E w \in Workers : cur[w].buffered /\ cur[w].id = i

\* write_pkg has appended the three chunks of task i.
WrittenOut(i) == \A s \in Streams : <<"chunk", i>> \in Range(calls[s])

\* C15: under weak fairness of the threads, every result that is in the
\* buffer is popped by a drain loop and written on the three streams (the
\* results of task 0 and of the last task never are in the buffer); a popped
\* result is held by one worker only, no chunk is appended twice, a result in
\* the buffer has not been written before, and once every invocation has
\* returned the buffer is empty.
C15_BufferedGetsWritten ==
    /\ [](\A i \in Ids :
            /\ InBuffer(i) => (0 < i /\ i < package_count - 1)
            /\ Cardinality({w \in Workers : cur[w].id = i}) <= 1
            /\ Popped(i) => ~InBuffer(i)
            /\ \A s \in Streams :
                 /\ Count(ChunkIds(s), i) <= 1
                 /\ InBuffer(i) => <<"chunk", i>> \notin Range(calls[s]))
    /\ [](Done => buffer = <<>>)
    /\ \A i \in 1..(OrderPackages - 2) :
         InBuffer(i) ~> (Popped(i) /\ WrittenOut(i))

\* C15 witness: two results are in the buffer, the one at the head has the
\* id id_pri has reached, and the worker that brought id_pri there has yet
\* to enter its drain loop.
C15_Witness ==
    /\ Len(buffer) = 2
    /\ Head(buffer).id = id["pri"]
    /\ \E w \in Workers : pc[w] = "wp_leave" /\ st[w] = "pri" /\ ~cur[w].buffered

\* C16: while write_pkg runs on a package of the old metadata, the string the
\* package's location_href points to is allocated: on the direct path it is
\* the task's full_path, which the worker frees after write_pkg; on the
\* deferred path it is the copy the BufferedTask owns, made before the task
\* was freed and freed after the drain's write_pkg.  A result waiting in the
\* buffer points to its copy as well.
C16_HrefNotFreed ==
    /\ \A w \in Workers : (InWritePkg(w) /\ cur[w].pkg_from_md) =>
         /\ md_href[cur[w].id] \in owned
         /\ md_href[cur[w].id] =
              <<(IF cur[w].buffered THEN "copy" ELSE "path"), cur[w].id>>
    /\ \A j \in 1..Len(buffer) : buffer[j].pkg_from_md =>
         /\ md_href[buffer[j].id] = <<"copy", buffer[j].id>>
         /\ <<"copy", buffer[j].id>> \in owned

\* C16 witness: a draining worker is at cr_db_add_pkg with a package of the
\* old metadata whose task was freed when the result went to the buffer.
C16_Witness ==
    \E w \in Workers :
        /\ pc[w] = "wp_db"
        /\ cur[w].buffered
        /\ cur[w].pkg_from_md
        /\ <<"path", cur[w].id>> \notin owned
        /\ md_href[cur[w].id] = <<"copy", cur[w].id>>

\* Worker w holds task k as its own and has not incremented id_pri for it.
HoldsOwn(w, k) ==
    /\ task[w] = k
    /\ pc[w] \in {"process", "buf_lock", "buf_insert", "buf_unlock",
                  "task_cleanup"}
         \/ (pc[w] \in {"wp_enter", "wp_sleep", "sk_enter", "sk_sleep"}
               /\ st[w] = "pri")

\* Worker w has popped the result of task k in its drain loop and has not
\* incremented id_pri for it.
HoldsPopped(w, k) ==
    /\ cur[w].buffered
    /\ cur[w].id = k
    /\ pc[w] \in {"wp_enter", "wp_sleep"}
    /\ st[w] = "pri"

\* C17: when id_pri = k < package_count and task k was taken from the queue,
\* either a worker holds task k (its own, or popped in the drain loop) and
\* has yet to increment id_pri, or the result of task k is the head of the
\* buffer; never both, and never two workers.
C17_NextIsHeldOrHead ==
    LET k == id["pri"] IN
    (k < package_count /\ k < queue_next) =>
        /\ \/ \E w \in Workers : HoldsOwn(w, k) \/ HoldsPopped(w, k)
           \/ buffer # <<>> /\ Head(buffer).id = k
        /\ Cardinality({w \in Workers : HoldsOwn(w, k) \/ HoldsPopped(w, k)}) <= 1
        /\ (buffer # <<>> /\ Head(buffer).id = k) =>
             \A w \in Workers :
                 ~HoldsPopped(w, k) /\ (HoldsOwn(w, k) => pc[w] = "buf_insert")

\* C17 witness: the result of task id_pri is the head of a buffer of two
\* results, no worker holds it, and a worker is about to look at the buffer
\* in its drain loop.
C17_Witness ==
    /\ Len(buffer) = 2
    /\ Head(buffer).id = id["pri"]
    /\ \A w \in Workers : task[w] # id["pri"] /\ cur[w].id # id["pri"]
    /\ \E w \in Workers : pc[w] = "dr_lock"

\* C18: the counters are ordered id_oth <= id_fil <= id_pri <= package_count
\* in every state, whichever of write_pkg, the skip block and the drain loop
\* increments them.
C18_CountersOrdered ==
    /\ id["oth"] <= id["fil"]
    /\ id["fil"] <= id["pri"]
    /\ id["pri"] <= package_count

\* C18 witness: the three counters differ, one worker is in write_pkg and
\* another in the skip block.
C18_Witness ==
    /\ id["oth"] < id["fil"]
    /\ id["fil"] < id["pri"]
    /\ \E w, v \in Workers : InWritePkg(w) /\ InSkip(v)

\* C19: the buffer is sorted by id, strictly ascending (so the ids are
\* pairwise distinct), and no id in it is below id_pri: its head is the
\* smallest deferred id still to be written.
C19_BufferSorted ==
    /\ \A i, j \in 1..Len(buffer) : i < j => buffer[i].id < buffer[j].id
    /\ \A j \in 1..Len(buffer) : buffer[j].id >= id["pri"]

\* C19 witness: a worker is about to insert a result whose id is below the
\* id at the head of the buffer.
C19_Witness ==
    \E w \in Workers :
        /\ pc[w] = "buf_insert"
        /\ buffer # <<>>
        /\ cur[w].id < Head(buffer).id

\* The mutexes worker w has locked.
Held(w) == {m \in Mutexes : mutex[m] = w}

\* Worker w is at a g_mutex_lock or in a g_cond_wait.
Waiting(w) ==
    pc[w] \in {"buf_lock", "dr_lock", "wp_enter", "wp_sleep", "sk_enter",
               "sk_sleep"}

\* C20: no worker holds two mutexes; a worker that is at a g_mutex_lock or
\* in a g_cond_wait holds none, so no worker waits for a mutex while it keeps
\* another from a waiting worker; mutex_buffer is held only between lines
\* 327 and 356/366 and between lines 411 and 415/427, a stream's mutex only
\* inside that stream's section of write_pkg or of the skip block.
C20_OneMutexAtATime ==
    \A w \in Workers :
        /\ Cardinality(Held(w)) <= 1
        /\ Waiting(w) => Held(w) = {}
        /\ mutex["buffer"] = w <=>
             pc[w] \in {"buf_insert", "buf_unlock", "dr_peek"}
        /\ \A s \in Streams : mutex[s] = w <=>
             (pc[w] \in {"wp_chunk", "wp_db", "wp_leave", "sk_leave"}
                /\ st[w] = s)

\* C20 witness: one worker holds mutex_pri, another holds mutex_buffer and a
\* third sleeps on a condition variable.
C20_Witness ==
    \E w, v, u \in Workers :
        /\ mutex["pri"] = w
        /\ mutex["buffer"] = v
        /\ pc[u] = "wp_sleep"
        /\ u \in cond[st[u]]

====
